---- MODULE Spec2Model ----
(***************************************************************************)
(* email-setup: SPF, DKIM and DMARC configuration checks over DNS TXT      *)
(* records (src/src/index.js, first module of the file, lines 1-252).      *)
(*                                                                         *)
(* The DNS resolver (dns.resolveTxt), the record parsers (spf-parse,       *)
(* dmarc-parse) and the recursive resolver (spf-master's SpfInspector) are *)
(* collaborators of the module.  A TXT string is modelled by what the      *)
(* module and its parsers read from it: its head (what startsWith and      *)
(* truthiness see) and the structured record the parser makes of it.       *)
(***************************************************************************)
EXTENDS Naturals, Sequences, FiniteSets, TLC

VARIABLES zone, pc, call, queries, outcome, current, stack, found,
          other, overlapped

\* zone is the DNS; pc .. found are the locals of the invocation that runs;
\* other holds the locals of a second invocation, suspended at its await or
\* not begun; overlapped tells that the running invocation was in flight
\* while the other one was
vars == <<zone, pc, call, queries, outcome, current, stack, found, other, overlapped>>

(***************************************************************************)
(* Bounds of the model.                                                    *)
(***************************************************************************)
MaxMechs == 2
MaxLimit == 3

(***************************************************************************)
(* Program constants.                                                      *)
(***************************************************************************)
NOTFOUND == "ENOTFOUND"
NODATA == "ENODATA"
SERVFAIL == "ESERVFAIL"
TIMEOUT == "ETIMEOUT"
\* an Error object that carries no code (err.code is undefined)
NoCode == "undefined"
NoError == "null"

\* the table of the earlier revision of the module, without SERVFAIL
NO_DNS_RECORD_WithoutServfail == {NOTFOUND, NODATA}

NO_DNS_RECORD == {NOTFOUND, NODATA, SERVFAIL}

ALL_MECHANISM_IS_NOT_THE_LAST == "One or more mechanisms were found after the \"all\" mechanism. These mechanisms will be ignored"
ALL_AND_REDIRECT_ARE_MISSING == "SPF strings should always either use an \"all\" mechanism or a \"redirect\" modifier to explicitly terminate processing."
OTHER_MESSAGE == "some other diagnostic"

NOT_SETUP == "not_setup"
INVALID == "invalid"
SETUP == "setup"

DefaultLimit == 10

ErrorCodes == {NOTFOUND, NODATA, SERVFAIL, TIMEOUT, NoCode}

(***************************************************************************)
(* Names.                                                                  *)
(***************************************************************************)
Domains == {"a.com", "b.com", "c.com"}
Selectors == {"google", "k1"}
Senders == {"b.com", "c.com"}

\* a slip that queries the domain itself for the DMARC record
DmarcName_Bare(domain) == domain

DkimName(selector, domain) == selector \o "._domainkey." \o domain
DmarcName(domain) == "_dmarc." \o domain

Names == Domains \cup {DmarcName(d) : d \in Domains}
                 \cup {DkimName(s, d) : s \in Selectors, d \in Domains}

(***************************************************************************)
(* TXT strings and what the parsers make of them.                          *)
(***************************************************************************)
Mech(prefixdesc, type, value) == [prefixdesc |-> prefixdesc, type |-> type, value |-> value]

SpfString(valid, hasMessages, messages, mechanisms) ==
  [head |-> "v=spf1", valid |-> valid, hasMessages |-> hasMessages,
   messages |-> messages, mechanisms |-> mechanisms, tags |-> {}]

DmarcString(tags) ==
  [head |-> "v=DMARC1", valid |-> FALSE, hasMessages |-> FALSE,
   messages |-> {}, mechanisms |-> <<>>, tags |-> tags]

\* a TXT string that is neither: a site verification token, a DKIM key, ...
TextString == [head |-> "text", valid |-> FALSE, hasMessages |-> FALSE,
               messages |-> {}, mechanisms |-> <<>>, tags |-> {}]

\* the empty string ''
EmptyString == [head |-> "", valid |-> FALSE, hasMessages |-> FALSE,
                messages |-> {}, mechanisms |-> <<>>, tags |-> {}]

Null == [null |-> TRUE]

\* val.startsWith('v=spf1')
StartsWithSpf1(val) == val.head = "v=spf1"

\* JavaScript truthiness of a string
Truthy(val) == val.head # ""

\* spfParse(raw): { valid, mechanisms, messages? }
spfParse(raw) == [valid |-> raw.valid, hasMessages |-> raw.hasMessages,
                  messages |-> raw.messages, mechanisms |-> raw.mechanisms]

\* dmarcParse(raw): { tags }
dmarcParse(raw) == [tags |-> raw.tags]

(***************************************************************************)
(* Underscore helpers.                                                     *)
(***************************************************************************)
RECURSIVE flatten(_)
flatten(records) ==
  IF records = <<>> THEN <<>> ELSE Head(records) \o flatten(Tail(records))

RECURSIVE compact(_)
compact(list) ==
  IF list = <<>> THEN <<>>
  ELSE IF Truthy(Head(list)) THEN <<Head(list)>> \o compact(Tail(list))
  ELSE compact(Tail(list))

\* index of the first element starting with 'v=spf1', 0 when there is none
RECURSIVE findSpfIndex(_, _)
findSpfIndex(list, i) ==
  IF i > Len(list) THEN 0
  ELSE IF StartsWithSpf1(list[i]) THEN i
  ELSE findSpfIndex(list, i + 1)

\* _.findWhere(mechanisms, attrs): does a mechanism with these attributes exist
findWhere(mechanisms, attrs) ==
  \E i \in 1..Len(mechanisms) : mechanisms[i] = attrs

(***************************************************************************)
(* DNS answers: what dns.resolveTxt hands its callback.                    *)
(***************************************************************************)
Failure(code) == [err |-> code, value |-> <<>>]
Answer(records) == [err |-> NoError, value |-> records]

\* a slip that rethrows every resolver error
getDNSTXTRecords_Rethrow(answer) ==
  IF answer.err = NoError THEN [kind |-> "value", records |-> answer.value, err |-> NoError]
  ELSE [kind |-> "throw", records |-> <<>>, err |-> answer.err]

\* _getDNSTXTRecords: the records, null for a missing record, or a rethrow
getDNSTXTRecords(answer) ==
  IF answer.err = NoError THEN [kind |-> "value", records |-> answer.value, err |-> NoError]
  ELSE IF answer.err \in NO_DNS_RECORD THEN [kind |-> "null", records |-> <<>>, err |-> NoError]
  ELSE [kind |-> "throw", records |-> <<>>, err |-> answer.err]

\* a slip that takes the last SPF string instead of the first
getSPFRecord_Last(records) ==
  LET flat == flatten(records)
      found1 == {i \in 1..Len(flat) : StartsWithSpf1(flat[i])}
  IN IF found1 = {} THEN Null
     ELSE spfParse(flat[CHOOSE i \in found1 : \A j \in found1 : j <= i])

\* _getSPFRecord after the records arrived (_.chain(null).flatten() is [])
getSPFRecord(records) ==
  LET flat == flatten(records)
      i == findSpfIndex(flat, 1)
  IN IF i = 0 THEN Null ELSE spfParse(flat[i])

\* _getDMARCRecord after the records arrived
getDMARCRecord(records) ==
  LET flat == flatten(records)
  IN IF flat = <<>> THEN Null
     ELSE IF ~Truthy(flat[1]) THEN Null
     ELSE dmarcParse(flat[1])

(***************************************************************************)
(* How an invocation ends: with a setup state, with a boolean (value is    *)
(* then "boolean" and flag the boolean), or with a thrown error (value is  *)
(* its code).                                                              *)
(***************************************************************************)
Pending == [kind |-> "pending", value |-> "", flag |-> FALSE]
Returned(value) == [kind |-> "return", value |-> value, flag |-> FALSE]
ReturnedFlag(flag) == [kind |-> "return", value |-> "boolean", flag |-> flag]
Thrown(code) == [kind |-> "throw", value |-> code, flag |-> FALSE]

(***************************************************************************)
(* The evaluators: what each public operation makes of the fetched data.   *)
(***************************************************************************)
AllValidationFlags == {"allMechanismIsTheLast", "allMechanismOrRedirectModifierIsPresent"}

\* the default of the `validations` parameter
DefaultValidations == [f \in AllValidationFlags |-> FALSE]

\* validations.<flag> as a condition: a flag the caller left out is undefined
Requested(validations, flag) == flag \in DOMAIN validations /\ validations[flag]

\* a slip that tests one flag for both diagnostics
spfSetupResult_OneFlag(spfRecord, validations) ==
  IF spfRecord = Null THEN NOT_SETUP
  ELSE IF ~spfRecord.valid THEN INVALID
  ELSE IF spfRecord.hasMessages
          /\ Requested(validations, "allMechanismIsTheLast")
          /\ (ALL_MECHANISM_IS_NOT_THE_LAST \in spfRecord.messages
              \/ ALL_AND_REDIRECT_ARE_MISSING \in spfRecord.messages)
       THEN INVALID
  ELSE SETUP

\* spfSetup after _getSPFRecord returned
spfSetupResult(spfRecord, validations) ==
  IF spfRecord = Null THEN NOT_SETUP
  ELSE IF ~spfRecord.valid THEN INVALID
  ELSE IF spfRecord.hasMessages
          /\ Requested(validations, "allMechanismIsTheLast")
          /\ ALL_MECHANISM_IS_NOT_THE_LAST \in spfRecord.messages
       THEN INVALID
  ELSE IF spfRecord.hasMessages
          /\ Requested(validations, "allMechanismOrRedirectModifierIsPresent")
          /\ ALL_AND_REDIRECT_ARE_MISSING \in spfRecord.messages
       THEN INVALID
  ELSE SETUP

\* a slip that matches the sender in any mechanism, whatever its type or qualifier
hasSPFSenderResult_AnyMechanism(spfRecord, sender) ==
  IF spfRecord = Null THEN FALSE
  ELSE IF ~spfRecord.valid THEN FALSE
  ELSE \E i \in 1..Len(spfRecord.mechanisms) : spfRecord.mechanisms[i].value = sender

\* hasSPFSender after _getSPFRecord returned
hasSPFSenderResult(spfRecord, sender) ==
  IF spfRecord = Null THEN FALSE
  ELSE IF ~spfRecord.valid THEN FALSE
  ELSE findWhere(spfRecord.mechanisms, Mech("Pass", "include", sender))

\* a slip that compares with < instead of <=
withinLimit_Strict(report, limit) ==
  Len(report.includes) + Len(report.domains) < limit

\* a slip that leaves the include lookups out of the sum
withinLimit_DomainsOnly(report, limit) ==
  Len(report.domains) <= limit

\* a slip that leaves the a lookups out of the sum
withinLimit_IncludesOnly(report, limit) ==
  Len(report.includes) <= limit

\* numberOfIncludeLookups + numberOfALookups <= limit
withinLimit(report, limit) ==
  Len(report.includes) + Len(report.domains) <= limit

\* a slip that counts the records instead of the non-empty strings
hasDKIMResult_CountRecords(answer) ==
  IF answer.err = NoError
    THEN Returned(IF Len(answer.value) > 0 THEN SETUP ELSE NOT_SETUP)
  ELSE IF answer.err \in NO_DNS_RECORD THEN Returned(NOT_SETUP)
  ELSE Thrown(answer.err)

\* hasDKIMRecordForSelector after the callback fired
hasDKIMResult(answer) ==
  IF answer.err = NoError
    THEN Returned(IF Len(compact(flatten(answer.value))) > 0 THEN SETUP ELSE NOT_SETUP)
  ELSE IF answer.err \in NO_DNS_RECORD THEN Returned(NOT_SETUP)
  ELSE Thrown(answer.err)

\* a slip that reads a record with no tags as set up
dmarcSetupResult_IgnoreTags(dmarcRecord) ==
  IF dmarcRecord = Null THEN NOT_SETUP ELSE SETUP

\* dmarcSetup after _getDMARCRecord returned
dmarcSetupResult(dmarcRecord) ==
  IF dmarcRecord = Null THEN NOT_SETUP
  ELSE IF dmarcRecord.tags # {} THEN SETUP
  ELSE INVALID

\* a slip that swallows every error of the walk
lookupsLimitCatch_SwallowAll(code) == ReturnedFlag(FALSE)

\* a slip that leaves the try/catch out
lookupsLimitCatch_NoCatch(code) == Thrown(code)

\* the catch block of spfRecordResolvesWithinDnsLookupsLimit
lookupsLimitCatch(code) ==
  IF code \in NO_DNS_RECORD THEN ReturnedFlag(FALSE)
  ELSE Thrown(code)

(***************************************************************************)
(* The DNS zones the operations run against.  A zone maps every name to    *)
(* the answer dns.resolveTxt gives for it; it is fixed for a behaviour.    *)
(***************************************************************************)
NoValue == ""

Include(domain) == Mech("Pass", "include", domain)
ARef(domain) == Mech("Pass", "a", domain)
Mx == Mech("Pass", "mx", NoValue)
All == Mech("Fail", "all", NoValue)

Record(mechanisms) == Answer(<< <<SpfString(TRUE, FALSE, {}, mechanisms)>> >>)

BaseZone == [n \in Names |-> Failure(NODATA)]

Failures == {Failure(c) : c \in ErrorCodes}

\* answers that hold no SPF string
NoSpfAnswers ==
  { Answer(<<>>), Answer(<< <<>> >>), Answer(<< <<TextString>> >>),
    Answer(<< <<EmptyString>> >>),
    Answer(<< <<TextString>>, <<EmptyString, DmarcString({"p"})>> >>) }

Messages == {ALL_MECHANISM_IS_NOT_THE_LAST, ALL_AND_REDIRECT_ARE_MISSING, OTHER_MESSAGE}

\* every outcome of the parser's validity flag and diagnostics
ParsedVariants ==
  {SpfString(v, TRUE, m, <<All>>) : v \in BOOLEAN, m \in SUBSET Messages}
    \cup {SpfString(v, FALSE, {}, <<All>>) : v \in BOOLEAN}

FewSpfStrings ==
  { SpfString(TRUE, FALSE, {}, <<Include("b.com"), All>>),
    SpfString(FALSE, TRUE, {OTHER_MESSAGE}, <<Include("c.com")>>),
    SpfString(TRUE, TRUE, {ALL_AND_REDIRECT_ARE_MISSING}, <<Include("c.com")>>) }

\* several strings in one answer, over records and over chunks of a record
MultiAnswers ==
  {Answer(<< <<TextString>>, <<s1>>, <<s2>> >>) : s1 \in FewSpfStrings, s2 \in FewSpfStrings}
    \cup {Answer(<< <<EmptyString, s1, s2, TextString>> >>) : s1 \in FewSpfStrings, s2 \in FewSpfStrings}

SetupZones ==
  {[BaseZone EXCEPT !["a.com"] = a] :
     a \in Failures \cup NoSpfAnswers \cup MultiAnswers
           \cup {Answer(<< <<s>> >>) : s \in ParsedVariants}}

SenderMechs ==
  {Mech("Pass", "include", d) : d \in Senders}
    \cup {Mech(q, "include", "b.com") : q \in {"Fail", "SoftFail", "Neutral"}}
    \cup {ARef("b.com"), Mech("Pass", "mx", "b.com"), All}

MechSeqs == UNION {[1..n -> SenderMechs] : n \in 0..MaxMechs}

\* a.com with every short mechanism list; b.com includes c.com one level deeper
SenderZones ==
  {[BaseZone EXCEPT !["a.com"] = Answer(<< <<SpfString(v, FALSE, {}, m)>> >>),
                    !["b.com"] = Record(<<Include("c.com"), All>>)] :
     v \in BOOLEAN, m \in MechSeqs}

WalkRoot ==
  { Record(<<Include("b.com"), All>>),
    Record(<<Include("b.com"), ARef("c.com"), All>>),
    Record(<<Include("a.com")>>),
    Record(<<Include("b.com"), Include("b.com")>>),
    Record(<<Include("b.com"), Include("c.com"), ARef("c.com")>>),
    Record(<<ARef("c.com"), ARef("c.com"), ARef("b.com")>>),
    Record(<<Mx, All>>),
    Record(<<Mech("Pass", "ptr", NoValue), Mech("Pass", "exists", "b.com"),
             Mech("Pass", "ip4", "192.0.2.1"), Mech("Pass", "ip6", "2001:db8::1"), All>>),
    Answer(<< <<SpfString(FALSE, TRUE, {OTHER_MESSAGE}, <<Mx, All>>)>> >>) }

WalkMid ==
  { Record(<<ARef("c.com"), All>>), Record(<<Include("c.com")>>),
    Record(<<Include("a.com")>>), Record(<<Mx, All>>),
    Failure(NODATA), Failure(TIMEOUT) }

WalkLeaf ==
  { Record(<<Mx, All>>), Record(<<Include("a.com")>>), Record(<<ARef("b.com")>>),
    Failure(SERVFAIL) }

WalkZones ==
  {[BaseZone EXCEPT !["a.com"] = a, !["b.com"] = b, !["c.com"] = c] :
     a \in WalkRoot, b \in WalkMid, c \in WalkLeaf}

DkimAnswers ==
  Failures \cup
  { Answer(<<>>), Answer(<< <<>> >>), Answer(<< <<EmptyString>> >>),
    Answer(<< <<EmptyString>>, <<EmptyString, EmptyString>> >>),
    Answer(<< <<TextString>> >>), Answer(<< <<EmptyString, TextString>> >>),
    Answer(<< <<EmptyString>>, <<TextString>> >>) }

DkimZones ==
  {[BaseZone EXCEPT ![DkimName("google", "a.com")] = a] : a \in DkimAnswers}

DmarcAnswers ==
  Failures \cup
  { Answer(<<>>), Answer(<< <<>> >>), Answer(<< <<EmptyString>> >>),
    Answer(<< <<EmptyString, DmarcString({"p"})>> >>),
    Answer(<< <<DmarcString({})>> >>), Answer(<< <<DmarcString({"v", "p"})>> >>),
    Answer(<< <<TextString>> >>),
    Answer(<< <<DmarcString({"p"})>>, <<DmarcString({})>> >>),
    Answer(<< <<DmarcString({})>>, <<DmarcString({"p"})>> >>),
    Answer(<< <<DmarcString({}), DmarcString({"p"})>> >>),
    Answer(<< <<TextString, DmarcString({"p"})>> >>) }

DmarcZones ==
  {[BaseZone EXCEPT ![DmarcName("a.com")] = a] : a \in DmarcAnswers}

Zones == SetupZones \cup SenderZones \cup WalkZones \cup DkimZones \cup DmarcZones

(***************************************************************************)
(* The arguments callers pass.                                             *)
(***************************************************************************)
\* a validations object may carry both flags, one of them, or none
ValidationObjects == UNION {[D -> BOOLEAN] : D \in SUBSET AllValidationFlags}

Limits == 0..MaxLimit

NoCurrent == [domain |-> "", depth |-> 0]
NoFound == [includes |-> <<>>, domains |-> <<>>]

\* what the caller passed; validationsGiven and limitGiven tell an argument
\* that was passed from one that was left out
NoCall == [op |-> "none", domain |-> "", validationsGiven |-> FALSE, validations |-> <<>>,
           sender |-> "", selector |-> "", limitGiven |-> FALSE, limit |-> 0]

\* a slip that turns the validations on by default
validationsParam_DefaultOn(c) ==
  IF c.validationsGiven THEN c.validations ELSE [f \in AllValidationFlags |-> TRUE]

\* the binding of `validations`: the argument, or the default when left out
validationsParam(c) ==
  IF c.validationsGiven THEN c.validations ELSE DefaultValidations

\* the binding of `limit`: the argument, or 10 when left out
limitParam(c) ==
  IF c.limitGiven THEN c.limit ELSE DefaultLimit

Idle == pc \in {"idle", "done"}

\* the locals of an invocation that has not begun
NotBegun == [pc |-> "idle", call |-> NoCall, queries |-> <<>>, outcome |-> Pending,
             current |-> NoCurrent, stack |-> <<>>, found |-> NoFound,
             overlapped |-> FALSE]

Fresh ==
  /\ pc = "idle"
  /\ call = NoCall
  /\ queries = <<>>
  /\ outcome = Pending
  /\ current = NoCurrent
  /\ stack = <<>>
  /\ found = NoFound
  /\ other = NotBegun
  /\ overlapped = FALSE

Init ==
  /\ zone \in Zones
  /\ Fresh

\* dns.resolveTxt(name, callback): the query goes out, the caller suspends
Issue(name) == queries' = Append(queries, name)

InFlight(at) == at \notin {"idle", "done"}

\* a slip that keeps the deferred in a variable of the module: the callback
\* of an invocation receives the answer to the query the other invocation
\* has in flight
Reply_SharedDeferred ==
  IF InFlight(other.pc) THEN zone[other.queries[Len(other.queries)]]
  ELSE zone[queries[Len(queries)]]

\* the answer the callback receives for the query in flight
Reply == zone[queries[Len(queries)]]

Finish(result) ==
  /\ outcome' = result
  /\ pc' = "done"


(***************************************************************************)
(* spfSetup                                                                *)
(***************************************************************************)
Begin(c, name, at) ==
  /\ Idle
  /\ call' = c
  /\ queries' = <<name>>
  /\ outcome' = Pending
  /\ pc' = at
  /\ current' = NoCurrent
  /\ stack' = <<>>
  /\ found' = NoFound
  /\ overlapped' = FALSE
  /\ UNCHANGED <<zone, other>>

\* spfSetup(domain): the validations parameter takes its default
CallSpfSetupDefault ==
  \E d \in Domains :
    Begin([NoCall EXCEPT !.op = "spfSetup", !.domain = d], d, "spfSetup")

\* spfSetup(domain, { validations })
CallSpfSetup ==
  \E d \in Domains, v \in ValidationObjects :
    Begin([NoCall EXCEPT !.op = "spfSetup", !.domain = d,
                         !.validationsGiven = TRUE, !.validations = v], d, "spfSetup")

ResumeSpfSetup ==
  /\ pc = "spfSetup"
  /\ LET got == getDNSTXTRecords(Reply)
     IN IF got.kind = "throw" THEN Finish(Thrown(got.err))
        ELSE Finish(Returned(spfSetupResult(getSPFRecord(got.records), validationsParam(call))))
  /\ UNCHANGED <<zone, other, overlapped, call, queries, current, stack, found>>

(***************************************************************************)
(* hasSPFSender                                                            *)
(***************************************************************************)
CallHasSPFSender ==
  \E d \in Domains, s \in Senders :
    Begin([NoCall EXCEPT !.op = "hasSPFSender", !.domain = d, !.sender = s], d, "hasSPFSender")

ResumeHasSPFSender ==
  /\ pc = "hasSPFSender"
  /\ LET got == getDNSTXTRecords(Reply)
     IN IF got.kind = "throw" THEN Finish(Thrown(got.err))
        ELSE Finish(ReturnedFlag(hasSPFSenderResult(getSPFRecord(got.records), call.sender)))
  /\ UNCHANGED <<zone, other, overlapped, call, queries, current, stack, found>>

(***************************************************************************)
(* hasDKIMRecordForSelector                                                *)
(***************************************************************************)
CallHasDKIM ==
  \E d \in Domains, s \in Selectors :
    Begin([NoCall EXCEPT !.op = "hasDKIMRecordForSelector", !.domain = d, !.selector = s],
          DkimName(s, d), "hasDKIM")

ResumeHasDKIM ==
  /\ pc = "hasDKIM"
  /\ Finish(hasDKIMResult(Reply))
  /\ UNCHANGED <<zone, other, overlapped, call, queries, current, stack, found>>

(***************************************************************************)
(* dmarcSetup                                                              *)
(***************************************************************************)
CallDmarcSetup ==
  \E d \in Domains :
    Begin([NoCall EXCEPT !.op = "dmarcSetup", !.domain = d], DmarcName(d), "dmarcSetup")

ResumeDmarcSetup ==
  /\ pc = "dmarcSetup"
  /\ LET got == getDNSTXTRecords(Reply)
     IN IF got.kind = "throw" THEN Finish(Thrown(got.err))
        ELSE Finish(Returned(dmarcSetupResult(getDMARCRecord(got.records))))
  /\ UNCHANGED <<zone, other, overlapped, call, queries, current, stack, found>>

(***************************************************************************)
(* spfRecordResolvesWithinDnsLookupsLimit                                  *)
(*                                                                         *)
(* SpfInspector(domain, { maxDepth: limit }, true) is the resolver of the  *)
(* spf-master package.  Its walk is modelled from its description: a      *)
(* sequential depth-first walk that fetches the TXT records of the root    *)
(* and of every include target down to depth maxDepth, records each        *)
(* include occurrence in found.includes and each a target in found.domains *)
(* (a domain is listed there once: the suite's zone whose root and whose   *)
(* include both name the same a target resolves within a limit of 2), and  *)
(* rejects with the resolver's error when a TXT query fails.               *)
(***************************************************************************)
\* the mechanisms the walk reads from an answer: those of its SPF string
inspectorMechanisms(answer) ==
  LET flat == flatten(answer.value)
      i == findSpfIndex(flat, 1)
  IN IF i = 0 THEN <<>> ELSE flat[i].mechanisms

RECURSIVE inspectorCollect(_, _)
inspectorCollect(report, mechanisms) ==
  IF mechanisms = <<>> THEN report
  ELSE LET m == Head(mechanisms)
           next == IF m.type = "include"
                     THEN [report EXCEPT !.includes = Append(@, m.value)]
                   ELSE IF m.type = "a" /\ \A i \in 1..Len(report.domains) : report.domains[i] # m.value
                     THEN [report EXCEPT !.domains = Append(@, m.value)]
                   ELSE report
       IN inspectorCollect(next, Tail(mechanisms))

\* the include targets of a record at `depth`, to be visited one level deeper
RECURSIVE inspectorChildren(_, _, _)
inspectorChildren(mechanisms, depth, maxDepth) ==
  IF mechanisms = <<>> \/ depth + 1 > maxDepth THEN <<>>
  ELSE LET m == Head(mechanisms)
           rest == inspectorChildren(Tail(mechanisms), depth, maxDepth)
       IN IF m.type = "include" THEN <<[domain |-> m.value, depth |-> depth + 1]>> \o rest
          ELSE rest

\* a slip that lets the walk go one level deeper than limit
maxDepthOption_OneDeeper(c) == limitParam(c) + 1

\* the option { maxDepth: limit } handed to SpfInspector
maxDepthOption(c) == limitParam(c)

BeginWalk(c) ==
  /\ Idle
  /\ call' = c
  /\ queries' = <<c.domain>>
  /\ outcome' = Pending
  /\ pc' = "walk"
  /\ current' = [domain |-> c.domain, depth |-> 0]
  /\ stack' = <<>>
  /\ found' = NoFound
  /\ overlapped' = FALSE
  /\ UNCHANGED <<zone, other>>

\* spfRecordResolvesWithinDnsLookupsLimit(domain): limit takes its default
CallLookupsLimitDefault ==
  \E d \in Domains :
    BeginWalk([NoCall EXCEPT !.op = "spfRecordResolvesWithinDnsLookupsLimit", !.domain = d])

\* spfRecordResolvesWithinDnsLookupsLimit(domain, limit)
CallLookupsLimit ==
  \E d \in Domains, l \in Limits :
    BeginWalk([NoCall EXCEPT !.op = "spfRecordResolvesWithinDnsLookupsLimit",
                             !.domain = d, !.limitGiven = TRUE, !.limit = l])

\* a TXT query of the walk failed: SpfInspector rejects, the catch block decides
WalkFail ==
  /\ pc = "walk"
  /\ Reply.err # NoError
  /\ Finish(lookupsLimitCatch(Reply.err))
  /\ UNCHANGED <<zone, other, overlapped, call, queries, current, stack, found>>

\* a TXT answer of the walk arrived and more include targets are to be fetched
WalkDescend ==
  /\ pc = "walk"
  /\ Reply.err = NoError
  /\ LET mechanisms == inspectorMechanisms(Reply)
         todo == inspectorChildren(mechanisms, current.depth, maxDepthOption(call)) \o stack
     IN /\ todo # <<>>
        /\ found' = inspectorCollect(found, mechanisms)
        /\ current' = Head(todo)
        /\ stack' = Tail(todo)
        /\ Issue(Head(todo).domain)
  /\ UNCHANGED <<zone, other, overlapped, call, pc, outcome>>

\* the last TXT answer of the walk arrived: the report is compared with limit
WalkComplete ==
  /\ pc = "walk"
  /\ Reply.err = NoError
  /\ LET mechanisms == inspectorMechanisms(Reply)
         todo == inspectorChildren(mechanisms, current.depth, maxDepthOption(call)) \o stack
         report == inspectorCollect(found, mechanisms)
     IN /\ todo = <<>>
        /\ found' = report
        /\ Finish(ReturnedFlag(withinLimit(report, limitParam(call))))
  /\ UNCHANGED <<zone, other, overlapped, call, queries, current, stack>>

Next ==
  \/ CallSpfSetupDefault
  \/ CallSpfSetup
  \/ ResumeSpfSetup
  \/ CallHasSPFSender
  \/ ResumeHasSPFSender
  \/ CallHasDKIM
  \/ ResumeHasDKIM
  \/ CallDmarcSetup
  \/ ResumeDmarcSetup
  \/ CallLookupsLimitDefault
  \/ CallLookupsLimit
  \/ WalkFail
  \/ WalkDescend
  \/ WalkComplete

Spec == Init /\ [][Next]_vars

\* the continuation of an invocation that waits for a TXT answer
Resume ==
  \/ ResumeSpfSetup
  \/ ResumeHasSPFSender
  \/ ResumeHasDKIM
  \/ ResumeDmarcSetup
  \/ WalkFail
  \/ WalkDescend
  \/ WalkComplete

(***************************************************************************)
(* Two invocations in flight.  An async function runs from one await to    *)
(* the next without interruption, so between two steps of one invocation   *)
(* the steps of another may run: Switch hands the thread to the other      *)
(* invocation.  The zones are few, each answering every kind of query.     *)
(***************************************************************************)
ConcZones ==
  {[BaseZone EXCEPT !["a.com"] = a,
                    !["b.com"] = Record(<<ARef("c.com"), All>>),
                    ![DkimName("google", "a.com")] = Answer(<< <<TextString>> >>),
                    ![DmarcName("a.com")] = Answer(<< <<DmarcString({"p"})>> >>)] :
     a \in {Record(<<Include("b.com"), ARef("c.com"), All>>), Failure(TIMEOUT)}}

InitConc ==
  /\ zone \in ConcZones
  /\ Fresh

Switch ==
  LET both == InFlight(pc) /\ InFlight(other.pc)
  IN /\ other' = [pc |-> pc, call |-> call, queries |-> queries, outcome |-> outcome,
                   current |-> current, stack |-> stack, found |-> found,
                   overlapped |-> overlapped \/ both]
     /\ pc' = other.pc
     /\ call' = other.call
     /\ queries' = other.queries
     /\ outcome' = other.outcome
     /\ current' = other.current
     /\ stack' = other.stack
     /\ found' = other.found
     /\ overlapped' = (other.overlapped \/ both)
     /\ UNCHANGED zone

NextConc ==
  \/ Next
  \/ Switch

SpecConc == InitConc /\ [][NextConc]_vars

\* the zones of every family but the mechanism lists that only hasSPFSender
\* tells apart
LiveZones == SetupZones \cup WalkZones \cup DkimZones \cup DmarcZones

InitLive ==
  /\ zone \in LiveZones
  /\ Fresh

\* the resolver calls back for every query, so a waiting invocation resumes
\* (every continuation changes pc or queries)
SpecLive == InitLive /\ [][Next]_vars /\ WF_<<pc, queries>>(Resume)

TypeOK ==
  /\ zone \in Zones
  /\ pc \in {"idle", "done", "spfSetup", "hasSPFSender", "hasDKIM", "dmarcSetup", "walk"}
  /\ outcome.kind \in {"pending", "return", "throw"}

(***************************************************************************)
(* Vocabulary of the properties, stated on the zone and on the outcome.    *)
(***************************************************************************)
NotFoundClass == {"ENOTFOUND", "ENODATA", "ESERVFAIL"}

Done(op) == pc = "done" /\ call.op = op

Returns(value) == outcome.kind = "return" /\ outcome.value = value

ReturnsFlag(flag) ==
  outcome.kind = "return" /\ outcome.value = "boolean" /\ outcome.flag = flag

\* the positions of the SPF strings of an answer, in flattened order
SpfPositions(answer) ==
  {i \in 1..Len(flatten(answer.value)) : flatten(answer.value)[i].head = "v=spf1"}

\* the domain has no SPF TXT record
HasNoSpfRecord(answer) ==
  \/ answer.err \in NotFoundClass
  \/ answer.err = "null" /\ SpfPositions(answer) = {}

HasSpfRecord(answer) == answer.err = "null" /\ SpfPositions(answer) # {}

\* the SPF string the module selects: the first one in flattened order
SelectedSpf(answer) ==
  flatten(answer.value)[CHOOSE i \in SpfPositions(answer) :
                          \A j \in SpfPositions(answer) : i <= j]

Emitted(record, message) == record.hasMessages /\ message \in record.messages

FlagOn(c, flag) ==
  c.validationsGiven /\ flag \in DOMAIN c.validations /\ c.validations[flag]

\* C1: for a domain with no SPF TXT record (a NotFound-class failure of the
\* TXT query, or TXT strings none of which starts with 'v=spf1') spfSetup
\* returns 'not_setup' whatever the validation flags, and hasSPFSender
\* returns false for every sender.
C1_NoSpfRecord ==
  /\ (Done("spfSetup") /\ HasNoSpfRecord(zone[call.domain])) => Returns("not_setup")
  /\ (Done("hasSPFSender") /\ HasNoSpfRecord(zone[call.domain])) => ReturnsFlag(FALSE)

C1_Witness ==
  /\ Done("spfSetup")
  /\ zone[call.domain].err = "null"
  /\ Len(flatten(zone[call.domain].value)) > 1
  /\ SpfPositions(zone[call.domain]) = {}
  /\ FlagOn(call, "allMechanismIsTheLast")
  /\ FlagOn(call, "allMechanismOrRedirectModifierIsPresent")
  /\ Returns("not_setup")

\* C2: when the selected SPF record is marked not valid by the parser,
\* spfSetup returns 'invalid' whatever the validation flags; when it is valid
\* and the validations are the default (both flags off), spfSetup returns
\* 'setup' even when the parser emitted diagnostics.
C2_InvalidAndDefault ==
  (Done("spfSetup") /\ HasSpfRecord(zone[call.domain])) =>
    LET record == SelectedSpf(zone[call.domain])
    IN /\ ~record.valid => Returns("invalid")
       /\ (record.valid /\ ~call.validationsGiven) => Returns("setup")
       /\ (record.valid /\ call.validationsGiven
             /\ call.validations = [f \in AllValidationFlags |-> FALSE]) => Returns("setup")

C2_Witness ==
  /\ Done("spfSetup")
  /\ ~call.validationsGiven
  /\ HasSpfRecord(zone[call.domain])
  /\ SelectedSpf(zone[call.domain]).valid
  /\ Emitted(SelectedSpf(zone[call.domain]), ALL_MECHANISM_IS_NOT_THE_LAST)
  /\ Emitted(SelectedSpf(zone[call.domain]), ALL_AND_REDIRECT_ARE_MISSING)
  /\ Returns("setup")

\* C3: for a valid SPF record spfSetup returns 'invalid' exactly when
\* allMechanismIsTheLast is requested and the 'mechanisms found after all'
\* diagnostic was emitted, or allMechanismOrRedirectModifierIsPresent is
\* requested and the 'neither all nor redirect' diagnostic was emitted; in
\* every other case it returns 'setup'.
C3_ValidationFlags ==
  (Done("spfSetup") /\ HasSpfRecord(zone[call.domain])
     /\ SelectedSpf(zone[call.domain]).valid) =>
    LET record == SelectedSpf(zone[call.domain])
        strict ==
          \/ /\ FlagOn(call, "allMechanismIsTheLast")
             /\ Emitted(record, ALL_MECHANISM_IS_NOT_THE_LAST)
          \/ /\ FlagOn(call, "allMechanismOrRedirectModifierIsPresent")
             /\ Emitted(record, ALL_AND_REDIRECT_ARE_MISSING)
    IN IF strict THEN Returns("invalid") ELSE Returns("setup")

\* the caller supplies one flag only, and the other flag's diagnostic is there
C3_Witness ==
  /\ Done("spfSetup")
  /\ call.validationsGiven
  /\ DOMAIN call.validations = {"allMechanismIsTheLast"}
  /\ call.validations["allMechanismIsTheLast"]
  /\ HasSpfRecord(zone[call.domain])
  /\ SelectedSpf(zone[call.domain]).valid
  /\ SelectedSpf(zone[call.domain]).messages = {ALL_AND_REDIRECT_ARE_MISSING}
  /\ Returns("setup")

\* the record lists `sender` as a top-level include with the pass qualifier
IncludesSender(record, sender) ==
  \E i \in 1..Len(record.mechanisms) :
    /\ record.mechanisms[i].type = "include"
    /\ record.mechanisms[i].prefixdesc = "Pass"
    /\ record.mechanisms[i].value = sender

\* C4: hasSPFSender(domain, sender) returns true if and only if the SPF
\* record exists, is valid and lists sender in a top-level include mechanism
\* with the pass qualifier; another qualifier, another mechanism type, an
\* include one level deeper or an invalid record give false.
C4_SenderIff ==
  Done("hasSPFSender") =>
    LET answer == zone[call.domain]
    IN ReturnsFlag(TRUE) <=>
         /\ HasSpfRecord(answer)
         /\ SelectedSpf(answer).valid
         /\ IncludesSender(SelectedSpf(answer), call.sender)

\* the sender is included by the included domain only
C4_Witness ==
  /\ Done("hasSPFSender")
  /\ call.sender = "c.com"
  /\ HasSpfRecord(zone[call.domain])
  /\ SelectedSpf(zone[call.domain]).valid
  /\ IncludesSender(SelectedSpf(zone[call.domain]), "b.com")
  /\ HasSpfRecord(zone["b.com"])
  /\ IncludesSender(SelectedSpf(zone["b.com"]), "c.com")
  /\ ReturnsFlag(FALSE)

\* no TXT query of the call failed
NoQueryFailed == \A i \in 1..Len(queries) : zone[queries[i]].err = "null"

\* C5: when the walk completes without error, the result is true if and only
\* if the include resolutions plus the a resolutions it found are at most
\* limit (a sum equal to limit gives true); limit is 10 when left out.
C5_SumWithinLimit ==
  (Done("spfRecordResolvesWithinDnsLookupsLimit") /\ NoQueryFailed) =>
    /\ outcome.kind = "return"
    /\ outcome.value = "boolean"
    /\ outcome.flag <=>
         (Len(found.includes) + Len(found.domains)
            <= (IF call.limitGiven THEN call.limit ELSE 10))

C5_Witness ==
  /\ Done("spfRecordResolvesWithinDnsLookupsLimit")
  /\ NoQueryFailed
  /\ call.limitGiven
  /\ call.limit = 2
  /\ Len(found.includes) = 1
  /\ Len(found.domains) = 1
  /\ ReturnsFlag(TRUE)

\* C6: when the TXT query for the root domain fails with a NotFound-class
\* code, spfRecordResolvesWithinDnsLookupsLimit returns false for every
\* limit, does not raise, and exactly one TXT lookup has been performed.
C6_RootNotFound ==
  (call.op = "spfRecordResolvesWithinDnsLookupsLimit"
     /\ zone[call.domain].err \in NotFoundClass) =>
    /\ Len(queries) = 1
    /\ pc = "done" => ReturnsFlag(FALSE)

C6_Witness ==
  /\ Done("spfRecordResolvesWithinDnsLookupsLimit")
  /\ zone[call.domain].err = "ESERVFAIL"
  /\ call.limitGiven
  /\ call.limit = MaxLimit
  /\ queries = <<call.domain>>
  /\ ReturnsFlag(FALSE)

RECURSIVE Counted(_)
Counted(mechanisms) ==
  IF mechanisms = <<>> THEN <<>>
  ELSE IF Head(mechanisms).type \in {"include", "a"}
    THEN <<Head(mechanisms)>> \o Counted(Tail(mechanisms))
  ELSE Counted(Tail(mechanisms))

\* the include and a mechanisms of the SPF record at `domain`
CountedMechanisms(domain) ==
  IF HasSpfRecord(zone[domain])
    THEN Counted(SelectedSpf(zone[domain]).mechanisms)
    ELSE <<>>

\* A includes B, B a-references C, and C has no further counted mechanisms
IsChain(A, B, C) ==
  /\ A # B /\ B # C /\ A # C
  /\ HasSpfRecord(zone[A]) /\ HasSpfRecord(zone[B]) /\ HasSpfRecord(zone[C])
  /\ CountedMechanisms(A) = <<Mech("Pass", "include", B)>>
  /\ CountedMechanisms(B) = <<Mech("Pass", "a", C)>>
  /\ CountedMechanisms(C) = <<>>

\* C7: for a chain where A includes B, B a-references C and C has no
\* further counted mechanisms, the check of A returns false with limit 1 and
\* true with limit 2, and performs exactly 2 TXT lookups in both cases.
C7_Chain ==
  \A B \in Domains, C \in Domains :
    (Done("spfRecordResolvesWithinDnsLookupsLimit") /\ call.limitGiven
       /\ IsChain(call.domain, B, C)) =>
      /\ call.limit = 1 => (ReturnsFlag(FALSE) /\ Len(queries) = 2)
      /\ call.limit = 2 => (ReturnsFlag(TRUE) /\ Len(queries) = 2)

C7_Witness ==
  /\ Done("spfRecordResolvesWithinDnsLookupsLimit")
  /\ call.limitGiven
  /\ call.limit = 1
  /\ IsChain(call.domain, "b.com", "c.com")
  /\ queries = <<call.domain, "b.com">>
  /\ ReturnsFlag(FALSE)

\* some chunk of some record of the answer is a non-empty string
HasNonEmptyString(answer) ==
  \E r \in 1..Len(answer.value) :
    \E k \in 1..Len(answer.value[r]) : answer.value[r][k].head # ""

\* C8: hasDKIMRecordForSelector returns 'setup' if and only if the TXT query
\* at '<selector>._domainkey.<domain>' succeeds with at least one non-empty
\* string among all chunks of all records; it returns 'not_setup' for an
\* empty answer, an answer of empty strings or a NotFound-class failure, and
\* never returns 'invalid'.
C8_Dkim ==
  Done("hasDKIMRecordForSelector") =>
    LET answer == zone[call.selector \o "._domainkey." \o call.domain]
    IN /\ queries = <<call.selector \o "._domainkey." \o call.domain>>
       /\ Returns("setup") <=> (answer.err = "null" /\ HasNonEmptyString(answer))
       /\ (answer.err \in NotFoundClass
             \/ (answer.err = "null" /\ ~HasNonEmptyString(answer))) => Returns("not_setup")
       /\ ~Returns("invalid")

\* two records are returned and every chunk of them is the empty string
C8_Witness ==
  /\ Done("hasDKIMRecordForSelector")
  /\ zone[queries[1]].err = "null"
  /\ Len(zone[queries[1]].value) = 2
  /\ ~HasNonEmptyString(zone[queries[1]])
  /\ Returns("not_setup")

\* C9: dmarcSetup returns 'not_setup' when no record exists at
\* '_dmarc.<domain>' (a NotFound-class failure, or no non-empty first
\* string), 'invalid' when the first string in flattened order parses to an
\* empty tag set and 'setup' when it parses to a non-empty one; later strings
\* never change the result.
C9_Dmarc ==
  Done("dmarcSetup") =>
    LET answer == zone["_dmarc." \o call.domain]
        strings == flatten(answer.value)
    IN /\ answer.err \in NotFoundClass => Returns("not_setup")
       /\ (answer.err = "null" /\ strings = <<>>) => Returns("not_setup")
       /\ (answer.err = "null" /\ strings # <<>>) =>
            IF strings[1].head = "" THEN Returns("not_setup")
            ELSE IF strings[1].tags = {} THEN Returns("invalid")
            ELSE Returns("setup")

\* the first string has no tags, a later one has
C9_Witness ==
  /\ Done("dmarcSetup")
  /\ zone[queries[1]].err = "null"
  /\ Len(flatten(zone[queries[1]].value)) = 2
  /\ flatten(zone[queries[1]].value)[1].head = "v=DMARC1"
  /\ flatten(zone[queries[1]].value)[1].tags = {}
  /\ flatten(zone[queries[1]].value)[2].tags # {}
  /\ Returns("invalid")

\* C10: in all five public operations a DNS failure whose code is NOTFOUND,
\* NODATA or SERVFAIL is never surfaced as an error: the operation completes
\* normally, with 'not_setup' (setup checks) or false (boolean checks).
C10_NotFoundAbsorbed ==
  (pc = "done" /\ zone[queries[Len(queries)]].err \in NotFoundClass) =>
    /\ outcome.kind = "return"
    /\ call.op \in {"spfSetup", "hasDKIMRecordForSelector", "dmarcSetup"}
         => outcome.value = "not_setup"
    /\ call.op \in {"hasSPFSender", "spfRecordResolvesWithinDnsLookupsLimit"}
         => (outcome.value = "boolean" /\ outcome.flag = FALSE)

C10_Witness ==
  /\ Done("dmarcSetup")
  /\ zone[queries[1]].err = "ESERVFAIL"
  /\ Returns("not_setup")

\* C11: in all five public operations a DNS failure whose code is not
\* NOTFOUND, NODATA or SERVFAIL (an error without a code included) is
\* re-raised to the caller as the same error; the operation never completes
\* with a setup state or a boolean then.
C11_OtherErrorsRaised ==
  (pc = "done" /\ zone[queries[Len(queries)]].err \notin (NotFoundClass \cup {"null"})) =>
    /\ outcome.kind = "throw"
    /\ outcome.value = zone[queries[Len(queries)]].err

\* the walk meets an error that carries no code
C11_Witness ==
  /\ Done("spfRecordResolvesWithinDnsLookupsLimit")
  /\ zone[call.domain].err = "undefined"
  /\ outcome.kind = "throw"
  /\ outcome.value = "undefined"

\* C14: a root SPF record with no include and no a mechanism (only all, ip4,
\* ip6 and the uncounted mx, ptr, exists), valid or not, contributes zero:
\* spfRecordResolvesWithinDnsLookupsLimit returns true for every limit >= 0
\* and performs exactly one TXT lookup.
C14_NothingCounted ==
  (call.op = "spfRecordResolvesWithinDnsLookupsLimit"
     /\ HasSpfRecord(zone[call.domain]) /\ CountedMechanisms(call.domain) = <<>>) =>
    /\ Len(queries) = 1
    /\ pc = "done" => ReturnsFlag(TRUE)

\* an invalid record of uncounted mechanisms, checked with limit 0
C14_Witness ==
  /\ Done("spfRecordResolvesWithinDnsLookupsLimit")
  /\ HasSpfRecord(zone[call.domain])
  /\ ~SelectedSpf(zone[call.domain]).valid
  /\ Len(SelectedSpf(zone[call.domain]).mechanisms) = 2
  /\ CountedMechanisms(call.domain) = <<>>
  /\ call.limitGiven /\ call.limit = 0
  /\ queries = <<call.domain>>
  /\ ReturnsFlag(TRUE)

\* the mechanisms of the SPF record the walk read at `name`
MechanismsAt(name) ==
  IF HasSpfRecord(zone[name]) THEN SelectedSpf(zone[name]).mechanisms ELSE <<>>

RECURSIVE OccurrencesOf(_, _)
\* how many mechanisms of `type` the records fetched by `names` hold
OccurrencesOf(type, names) ==
  IF names = <<>> THEN 0
  ELSE Cardinality({i \in 1..Len(MechanismsAt(Head(names))) :
                      MechanismsAt(Head(names))[i].type = type})
       + OccurrencesOf(type, Tail(names))

\* the a targets named by the records fetched by the call
ATargets ==
  {v \in Domains : \E q \in 1..Len(queries) :
     \E i \in 1..Len(MechanismsAt(queries[q])) :
       /\ MechanismsAt(queries[q])[i].type = "a"
       /\ MechanismsAt(queries[q])[i].value = v}

\* the root includes B and a-references C, and B a-references C too
IsSharedATarget(A, B, C) ==
  /\ A # B /\ B # C /\ A # C
  /\ CountedMechanisms(A) = <<Mech("Pass", "include", B), Mech("Pass", "a", C)>>
  /\ CountedMechanisms(B) = <<Mech("Pass", "a", C)>>

C16_FirstSpfString ==
  /\ (Done("spfSetup") /\ HasSpfRecord(zone[call.domain])) =>
       Returns(spfSetupResult(spfParse(SelectedSpf(zone[call.domain])),
                              validationsParam(call)))
  /\ (Done("hasSPFSender") /\ HasSpfRecord(zone[call.domain])) =>
       ReturnsFlag(hasSPFSenderResult(spfParse(SelectedSpf(zone[call.domain])), call.sender))

\* a valid SPF string is followed, in the same record, by an invalid one
C16_Witness ==
  /\ Done("spfSetup")
  /\ Len(zone[call.domain].value) = 1
  /\ Cardinality(SpfPositions(zone[call.domain])) = 2
  /\ SelectedSpf(zone[call.domain]).valid
  /\ \E i \in SpfPositions(zone[call.domain]) : ~flatten(zone[call.domain].value)[i].valid
  /\ Returns("setup")

\* C18 as stated: for every domain for which spfSetup returns 'not_setup',
\* a domain whose TXT query succeeds without an SPF string included,
\* spfRecordResolvesWithinDnsLookupsLimit returns false for every limit; it
\* neither returns true nor raises.
C18_AbsentMeansFalse ==
  (Done("spfRecordResolvesWithinDnsLookupsLimit") /\ HasNoSpfRecord(zone[call.domain])) =>
    ReturnsFlag(FALSE)

\* every domain the walk is at or has yet to visit lies within limit levels
WalkWithinDepth ==
  call.op = "spfRecordResolvesWithinDnsLookupsLimit" =>
    LET limit == IF call.limitGiven THEN call.limit ELSE 10
    IN /\ current.depth <= limit
       /\ \A i \in 1..Len(stack) : stack[i].depth <= limit

\* C13: spfRecordResolvesWithinDnsLookupsLimit terminates for every finite
\* zone, zones whose SPF records include each other cyclically included: the
\* walk never descends deeper than limit levels, and the call eventually
\* returns a boolean or raises.
C13_WalkTerminates ==
  /\ []WalkWithinDepth
  /\ (pc = "walk") ~> (pc = "done" /\ outcome.kind \in {"return", "throw"})

\* a record that includes its own domain, walked down to limit 2
C13_Witness ==
  /\ Done("spfRecordResolvesWithinDnsLookupsLimit")
  /\ call.limitGiven /\ call.limit = 2
  /\ CountedMechanisms(call.domain) = <<Mech("Pass", "include", call.domain)>>
  /\ queries = <<call.domain, call.domain, call.domain>>
  /\ ReturnsFlag(FALSE)

\* the one name each of the four single-query operations asks for
QueriedName ==
  IF call.op = "hasDKIMRecordForSelector" THEN call.selector \o "._domainkey." \o call.domain
  ELSE IF call.op = "dmarcSetup" THEN "_dmarc." \o call.domain
  ELSE call.domain

SingleQueryOps == {"spfSetup", "hasSPFSender", "hasDKIMRecordForSelector", "dmarcSetup"}

Waiting == pc \in {"spfSetup", "hasSPFSender", "hasDKIM", "dmarcSetup"}

\* C17: each call of spfSetup, hasSPFSender, hasDKIMRecordForSelector and
\* dmarcSetup issues exactly one TXT query, for '<domain>', '<domain>',
\* '<selector>._domainkey.<domain>' and '_dmarc.<domain>', and then
\* completes; it never queries a domain named inside the record it fetched.
C17_OneQueryThenDone ==
  /\ [](call.op \in SingleQueryOps => queries = <<QueriedName>>)
  /\ [][Waiting => (pc' = "done" /\ queries' = queries)]_<<pc, queries>>
  /\ Waiting ~> (pc = "done")

\* the record fetched names another domain, which is not queried
C17_Witness ==
  /\ Done("hasSPFSender")
  /\ HasSpfRecord(zone[call.domain])
  /\ IncludesSender(SelectedSpf(zone[call.domain]), "b.com")
  /\ call.domain # "b.com"
  /\ queries = <<call.domain>>
  /\ ReturnsFlag(TRUE)

\* what an invocation returns or raises when it runs alone against zone z
RECURSIVE walkAlone(_, _, _, _, _)
walkAlone(z, c, at, todoRest, report) ==
  LET reply == z[at.domain]
  IN IF reply.err # NoError THEN lookupsLimitCatch(reply.err)
     ELSE LET mechanisms == inspectorMechanisms(reply)
              todo == inspectorChildren(mechanisms, at.depth, maxDepthOption(c)) \o todoRest
              collected == inspectorCollect(report, mechanisms)
          IN IF todo = <<>> THEN ReturnedFlag(withinLimit(collected, limitParam(c)))
             ELSE walkAlone(z, c, Head(todo), Tail(todo), collected)

AloneOutcome(z, c) ==
  IF c.op = "hasDKIMRecordForSelector" THEN hasDKIMResult(z[DkimName(c.selector, c.domain)])
  ELSE IF c.op = "spfRecordResolvesWithinDnsLookupsLimit"
    THEN walkAlone(z, c, [domain |-> c.domain, depth |-> 0], <<>>, NoFound)
  ELSE LET got == getDNSTXTRecords(z[IF c.op = "dmarcSetup" THEN DmarcName(c.domain)
                                     ELSE c.domain])
       IN IF got.kind = "throw" THEN Thrown(got.err)
          ELSE IF c.op = "spfSetup"
            THEN Returned(spfSetupResult(getSPFRecord(got.records), validationsParam(c)))
          ELSE IF c.op = "hasSPFSender"
            THEN ReturnedFlag(hasSPFSenderResult(getSPFRecord(got.records), c.sender))
          ELSE Returned(dmarcSetupResult(getDMARCRecord(got.records)))

\* C12: the operations keep no state across calls: whatever the sequence or
\* the interleaving of invocations against the same DNS answers, an
\* invocation that has completed has the outcome it has when it runs alone,
\* which depends on the zone and on its arguments only (so a repeated
\* invocation has the same outcome).
C12_OutcomeAsAlone ==
  /\ pc = "done" => outcome = AloneOutcome(zone, call)
  /\ other.pc = "done" => other.outcome = AloneOutcome(zone, other.call)

\* a walk of two queries and an spfSetup of another domain, each in flight
\* while the other was, have both completed, with different outcomes
C12_Witness ==
  /\ Done("spfRecordResolvesWithinDnsLookupsLimit")
  /\ overlapped
  /\ Len(queries) = 2
  /\ ReturnsFlag(TRUE)
  /\ other.pc = "done"
  /\ other.overlapped
  /\ other.call.op = "spfSetup"
  /\ other.call.domain # call.domain
  /\ other.outcome = Returned(NOT_SETUP)
====
